---- MODULE Spec2Model ----
(***************************************************************************)
(* Validation-and-report pipeline of the Industry Wikipedia Assistant      *)
(* (ML.py): the industry validator, the URL selector, the text cleaner     *)
(* and the two report assemblers.                                          *)
(*                                                                         *)
(* Python strings are TLA+ strings; the character at position i of s is    *)
(* SubSeq(s, i, i).  Python lists are sequences.  A metadata key that is   *)
(* absent, None or "" is the empty string: the code reads every key with   *)
(* `md.get(k) or ...`, which does not tell these apart.                    *)
(***************************************************************************)
EXTENDS Integers, Sequences, FiniteSets, TLC

VARIABLES
    pc,     \* position of the running call
    args,   \* arguments of the running call
    calls,  \* retriever calls made by the running call, in order
    ret     \* value returned by the call

vars == <<pc, args, calls, ret>>

-----------------------------------------------------------------------------
(* Strings                                                                 *)

Char(s, i) == SubSeq(s, i, i)

Range(f) == {f[i] : i \in DOMAIN f}

WhitespaceChars == {" ", "\n", "\t"}

DigitChars == {"0", "1", "2", "3", "4", "5", "6", "7", "8", "9"}

UpperChars == <<"A", "B", "C", "D", "E", "F", "G", "H", "I", "J", "K", "L", "M",
                "N", "O", "P", "Q", "R", "S", "T", "U", "V", "W", "X", "Y", "Z">>

LowerChars == <<"a", "b", "c", "d", "e", "f", "g", "h", "i", "j", "k", "l", "m",
                "n", "o", "p", "q", "r", "s", "t", "u", "v", "w", "x", "y", "z">>

LetterChars == Range(UpperChars) \cup Range(LowerChars)

IsSpace(c) == c \in WhitespaceChars

IsDigit(c) == c \in DigitChars

IsAlpha(c) == c \in LetterChars

\* \w of the regular expressions
IsWordChar(c) == IsAlpha(c) \/ IsDigit(c) \/ c = "_"

\* f[lo] \o ... \o f[hi] for a function f of strings
RECURSIVE Concat(_, _, _)
Concat(f, lo, hi) ==
    IF lo > hi THEN ""
    ELSE IF lo = hi THEN f[lo]
    ELSE LET mid == (lo + hi) \div 2
         IN  Concat(f, lo, mid) \o Concat(f, mid + 1, hi)

\* f[lo] \o ... \o f[hi] for a function f of sequences
RECURSIVE Flatten(_, _, _)
Flatten(f, lo, hi) ==
    IF lo > hi THEN <<>>
    ELSE IF lo = hi THEN f[lo]
    ELSE LET mid == (lo + hi) \div 2
         IN  Flatten(f, lo, mid) \o Flatten(f, mid + 1, hi)

\* the members of S \subseteq 1..n in increasing order
Sorted(S, n) == Flatten([i \in 1..n |-> IF i \in S THEN <<i>> ELSE <<>>], 1, n)

\* s without the characters at the positions in D
DeleteAt(s, D) ==
    Concat([i \in 1..Len(s) |-> IF i \in D THEN "" ELSE Char(s, i)], 1, Len(s))

\* sub in s
Contains(s, sub) ==
    \E i \in 1..(Len(s) - Len(sub) + 1) : SubSeq(s, i, i + Len(sub) - 1) = sub

\* s.strip()
py_strip(s) ==
    LET n == Len(s)
    IN  IF \A i \in 1..n : IsSpace(Char(s, i)) THEN ""
        ELSE LET first == CHOOSE i \in 1..n :
                              /\ ~IsSpace(Char(s, i))
                              /\ \A j \in 1..(i - 1) : IsSpace(Char(s, j))
                 last  == CHOOSE i \in 1..n :
                              /\ ~IsSpace(Char(s, i))
                              /\ \A j \in (i + 1)..n : IsSpace(Char(s, j))
             IN  SubSeq(s, first, last)

\* s.lower()
py_lower(s) ==
    LET low(c) == IF c \in Range(UpperChars)
                  THEN LowerChars[CHOOSE k \in 1..26 : UpperChars[k] = c]
                  ELSE c
    IN  Concat([i \in 1..Len(s) |-> low(Char(s, i))], 1, Len(s))

\* re.sub(r"\s+", " ", s)
collapse_whitespace(s) ==
    Concat([i \in 1..Len(s) |->
               IF ~IsSpace(Char(s, i)) THEN Char(s, i)
               ELSE IF i > 1 /\ IsSpace(Char(s, i - 1)) THEN ""
               ELSE " "], 1, Len(s))

\* s.split(): the maximal runs of non-whitespace characters, in order
py_split(s) ==
    LET n == Len(s)
        starts == Sorted({i \in 1..n : /\ ~IsSpace(Char(s, i))
                                       /\ i = 1 \/ IsSpace(Char(s, i - 1))}, n)
        ends   == Sorted({i \in 1..n : /\ ~IsSpace(Char(s, i))
                                       /\ i = n \/ IsSpace(Char(s, i + 1))}, n)
    IN  [k \in 1..Len(starts) |-> SubSeq(s, starts[k], ends[k])]

\* sep.join(words)
py_join(sep, words) ==
    Concat([i \in 1..Len(words) |-> IF i = 1 THEN words[i] ELSE sep \o words[i]],
           1, Len(words))

\* s.rstrip('.')
py_rstrip_dot(s) ==
    LET n == Len(s)
    IN  IF \A i \in 1..n : Char(s, i) = "." THEN ""
        ELSE SubSeq(s, 1, CHOOSE i \in 1..n :
                              /\ Char(s, i) # "."
                              /\ \A j \in (i + 1)..n : Char(s, j) = ".")

\* seq[:n]
Take(seq, n) == SubSeq(seq, 1, IF Len(seq) < n THEN Len(seq) ELSE n)

-----------------------------------------------------------------------------
(* Text cleaner                                                            *)

\* a letter with a word boundary on both sides: \b[A-Za-z]\b
IsSingleLetter(t, p) ==
    /\ p >= 1 /\ p <= Len(t)
    /\ IsAlpha(Char(t, p))
    /\ p = 1 \/ ~IsWordChar(Char(t, p - 1))
    /\ p = Len(t) \/ ~IsWordChar(Char(t, p + 1))

\* The whitespace matched by (?<=\d)\s*([.,])\s*(?=\d).  In t every run of
\* whitespace is one space, so \s* is at most the space next to the [.,].
NumberPunctSpaces(t) ==
    LET n == Len(t)
        punct(k) == k >= 1 /\ k <= n /\ Char(t, k) \in {".", ","}
        left(k)  == IF k > 1 /\ IsSpace(Char(t, k - 1)) THEN k - 1 ELSE k
        right(k) == IF k < n /\ IsSpace(Char(t, k + 1)) THEN k + 1 ELSE k
        matched(k) == /\ punct(k)
                      /\ left(k) > 1 /\ IsDigit(Char(t, left(k) - 1))
                      /\ right(k) < n /\ IsDigit(Char(t, right(k) + 1))
    IN  {i \in 1..n : IsSpace(Char(t, i)) /\ (matched(i + 1) \/ matched(i - 1))}

\* The whitespace matched by (?<=\d)\s+(?=\d)
DigitGapSpaces(t) ==
    {i \in 2..(Len(t) - 1) :
        IsSpace(Char(t, i)) /\ IsDigit(Char(t, i - 1)) /\ IsDigit(Char(t, i + 1))}

\* The spaces inside the matches of (?:\b[A-Za-z]\b\s+){2,}\b[A-Za-z]\b: a
\* match is a maximal run of three or more single letters separated by one
\* space, so a space is inside a match when it stands between two single
\* letters and a third single letter follows or precedes them in the run.
SpelledRunSpaces(t) ==
    {i \in 2..(Len(t) - 1) :
        /\ IsSpace(Char(t, i))
        /\ IsSingleLetter(t, i - 1)
        /\ IsSingleLetter(t, i + 1)
        /\ \/ i + 3 <= Len(t) /\ IsSpace(Char(t, i + 2)) /\ IsSingleLetter(t, i + 3)
           \/ i >= 4 /\ IsSpace(Char(t, i - 2)) /\ IsSingleLetter(t, i - 3)}

\* The whitespace matched by \s+([,.;:!?])
PrePunctSpaces(t) ==
    {i \in 1..(Len(t) - 1) :
        IsSpace(Char(t, i)) /\ Char(t, i + 1) \in {",", ".", ";", ":", "!", "?"}}

clean_wiki_text(text) ==
    LET t1 == collapse_whitespace(py_strip(text))
        t2 == DeleteAt(t1, NumberPunctSpaces(t1))
        t3 == DeleteAt(t2, DigitGapSpaces(t2))
        t4 == DeleteAt(t3, SpelledRunSpaces(t3))
    IN  DeleteAt(t4, PrePunctSpaces(t4))

-----------------------------------------------------------------------------
(* Text normalizer and signal scorer                                       *)

normalize(s) == collapse_whitespace(py_lower(py_strip(s)))

has_real_text(s) ==
    \E i \in 1..Len(s) : IsAlpha(Char(s, i)) \/ IsDigit(Char(s, i))

INDUSTRY_SIGNALS ==
    {"industry", "industries", "industrial", "sector", "sectors", "market", "markets",
     "business", "commerce", "commercial", "trade",
     "supply chain", "value chain", "manufacturing", "production", "distribution",
     "wholesale", "retail", "logistics", "procurement",
     "competition", "competitor", "pricing", "revenue", "profit", "cost",
     "demand", "supply", "market share",
     "regulation", "regulated", "compliance", "standard", "standards",
     "services", "service industry", "financial services", "healthcare", "insurance",
     "banking", "telecommunications", "energy", "oil and gas", "mining",
     "construction", "transport", "transportation", "automotive", "pharmaceutical",
     "biotechnology", "aerospace", "defense", "agriculture", "food industry",
     "hospitality", "tourism"}

score_industry_signals(text) ==
    LET t == normalize(text)
    IN  Cardinality({sig \in INDUSTRY_SIGNALS : Contains(t, sig)})

-----------------------------------------------------------------------------
(* Documents                                                               *)

\* A retrieved document: the metadata keys the code reads, and page_content.
Document(title, page_title, source, url, summary, page_content) ==
    [title |-> title, page_title |-> page_title, source |-> source, url |-> url,
     summary |-> summary, description |-> "", snippet |-> "", content |-> "",
     page_content |-> page_content]

\* md.get("title") or md.get("page_title") or default
title_of(d, default) ==
    IF d.title # "" THEN d.title
    ELSE IF d.page_title # "" THEN d.page_title
    ELSE default

\* md.get("source") or md.get("url")
url_of(d) == IF d.source # "" THEN d.source ELSE d.url


\* Pages of the encyclopedia in the retriever's ranking order.
WikiPages ==
    << Document("Banking", "", "u1", "", "", "Banking is a regulated business."),
       Document("Cat", "", "u6", "", "", "The cat is a small animal."),
       Document("", "Retail", "", "u2", "", ""),
       Document("Dog", "", "u7", "", "", "Dogs bark."),
       Document("Energy", "", "u3", "", "", "Power and heat."),
       Document("Fish", "", "", "", "", "Fish swim."),
       Document("Mining", "", "u4", "", "", ""),
       Document("Teller", "", "u1", "", "", ""),
       Document("", "", "u5", "", "", "  Tourism\nand  HOSPITALITY "),
       Document("Bird", "", "u8", "", "", "Birds fly.") >>

\* score_industry_signals(f"{title} {snippet}") of every page, tabulated once
SnippetScores ==
    [d \in Range(WikiPages) |->
        score_industry_signals(title_of(d, "") \o " " \o Take(d.page_content, 500))]

\* hits of title + " " + first 500 characters of the body
signal_hits(d) == SnippetScores[d]

-----------------------------------------------------------------------------
(* URL selector                                                            *)

\* the url test without the seen_urls check
contributes_unseen_dropped(url, seen_urls) == url # ""

\* if url and url not in seen_urls
contributes(url, seen_urls) == url # "" /\ url \notin seen_urls

\* the loop without its break
five_collected_never(out) == FALSE

\* if len(out) == 5: break
five_collected(out) == Len(out) = 5

RECURSIVE extract_loop(_, _, _, _)
extract_loop(docs, i, out, seen_urls) ==
    IF i > Len(docs) THEN out
    ELSE LET url   == url_of(docs[i])
             title == title_of(docs[i], "Wikipedia page")
             add   == contributes(url, seen_urls)
             out2  == IF add THEN Append(out, <<title, url>>) ELSE out
             seen2 == IF add THEN seen_urls \cup {url} ELSE seen_urls
         IN  IF five_collected(out2) THEN out2
             ELSE extract_loop(docs, i + 1, out2, seen2)

extract_5_urls(docs) == extract_loop(docs, 1, <<>>, {})

-----------------------------------------------------------------------------
(* Industry validator                                                      *)

\* The tuple (is_valid, message, docs, title_url_pairs).  The message is
\* named by its class.
Result(is_valid, message, docs, title_url_pairs) ==
    [is_valid |-> is_valid, message |-> message, docs |-> docs,
     links |-> title_url_pairs]

\* the keyword test on the raw input instead of the normalized one
disambiguate_raw(industry) ==
    IF \A k \in {"industry", "sector", "market"} : ~Contains(industry, k)
    THEN industry \o " industry"
    ELSE industry

\* the query handed to the retriever
disambiguate(industry) ==
    LET norm == normalize(industry)
    IN  IF \A k \in {"industry", "sector", "market"} : ~Contains(norm, k)
        THEN industry \o " industry"
        ELSE industry

\* the documents that pass the relevance filter
filter_docs(docs, min_signal_hits_per_doc) ==
    LET keep(d) == signal_hits(d) >= min_signal_hits_per_doc
    IN  SelectSeq(docs, keep)

\* the filtered set without the fallback to the unfiltered one
choose_docs_filtered_only(filtered, docs, min_results) == filtered

\* docs_to_use = filtered if len(filtered) >= min_results else docs
choose_docs(filtered, docs, min_results) ==
    IF Len(filtered) >= min_results THEN filtered ELSE docs

\* the link threshold off by one
too_few_links_below_four(title_url_pairs) == Len(title_url_pairs) < 4

\* if len(title_url_pairs) < 5
too_few_links(title_url_pairs) == Len(title_url_pairs) < 5

\* number of the first min_results documents with enough signal hits
count_signal_docs(docs_to_use, min_results, min_signal_hits_per_doc) ==
    LET top == Take(docs_to_use, min_results)
    IN  Cardinality({i \in 1..Len(top) : signal_hits(top[i]) >= min_signal_hits_per_doc})

\* the gate with "or" in place of "and"
not_industry_like_either(query_score, signal_docs, min_signal_docs) ==
    query_score = 0 \/ signal_docs < min_signal_docs

\* if query_score == 0 and signal_docs < min_signal_docs
not_industry_like(query_score, signal_docs, min_signal_docs) ==
    query_score = 0 /\ signal_docs < min_signal_docs

\* validate_industry_with_wikipedia from the retriever's answer on
validate_docs(a, docs) ==
    IF docs = <<>> THEN Result(FALSE, "NoResults", <<>>, <<>>)
    ELSE
    LET filtered    == filter_docs(docs, a.min_signal_hits_per_doc)
        docs_to_use == choose_docs(filtered, docs, a.min_results)
    IN  IF Len(docs_to_use) < a.min_results
        THEN Result(FALSE, "InsufficientResults", docs_to_use, <<>>)
        ELSE
        LET title_url_pairs == extract_5_urls(docs_to_use)
        IN  IF too_few_links(title_url_pairs)
            THEN Result(FALSE, "InsufficientLinks", docs_to_use, title_url_pairs)
            ELSE
            LET query_score == score_industry_signals(a.industry)
                signal_docs == count_signal_docs(docs_to_use, a.min_results,
                                                 a.min_signal_hits_per_doc)
            IN  IF not_industry_like(query_score, signal_docs, a.min_signal_docs)
                THEN Result(FALSE, "NotIndustryLike", docs_to_use, title_url_pairs)
                ELSE Result(TRUE, "OK", docs_to_use, title_url_pairs)

-----------------------------------------------------------------------------
(* Inputs of the validator                                                 *)

MaxDocs == 6

\* the pages at the positions in K, in ranking order
PagesAt(K) ==
    Flatten([i \in 1..Len(WikiPages) |-> IF i \in K THEN <<WikiPages[i]>> ELSE <<>>],
            1, Len(WikiPages))

\* what a retrieval call can return: up to MaxDocs pages, possibly none
Retrievals ==
    {PagesAt(K) : K \in {K \in SUBSET (1..Len(WikiPages)) : Cardinality(K) <= MaxDocs}}

Industries == {"", "   ", "xq7", "Retail", "Car  MARKET"}

ValidateArgs ==
    [fn : {"validate_industry_with_wikipedia"},
     industry : Industries,
     min_results : {0, 2, 5},
     min_signal_docs : {1, 2},
     min_signal_hits_per_doc : {1, 2}]

\* one retriever call: the method, its argument, how it ended, what it returned
Call(method, query, outcome, docs) ==
    [method |-> method, query |-> query, outcome |-> outcome, docs |-> docs]

NoResult == Result(FALSE, "", <<>>, <<>>)

InitValidate ==
    /\ pc = "start"
    /\ args \in ValidateArgs
    /\ calls = <<>>
    /\ ret = NoResult

\* if not has_real_text(industry): return
RejectEmptyInput ==
    /\ pc = "start"
    /\ ~has_real_text(args.industry)
    /\ ret' = Result(FALSE, "EmptyInput", <<>>, <<>>)
    /\ pc' = "return"
    /\ UNCHANGED <<args, calls>>

\* docs = retriever.invoke(query) is entered
InvokePrimary ==
    /\ pc = "start"
    /\ has_real_text(args.industry)
    /\ calls' = <<Call("invoke", disambiguate(args.industry), "pending", <<>>)>>
    /\ pc' = "primary"
    /\ UNCHANGED <<args, ret>>

\* retriever.invoke returns docs; the call runs to its return statement
PrimaryReturns(docs) ==
    /\ pc = "primary"
    /\ calls' = [calls EXCEPT ![1].outcome = "returned", ![1].docs = docs]
    /\ ret' = validate_docs(args, docs)
    /\ pc' = "return"
    /\ UNCHANGED args

\* retriever.invoke raises; retriever.get_relevant_documents(query) is entered
PrimaryRaises ==
    /\ pc = "primary"
    /\ calls' = Append([calls EXCEPT ![1].outcome = "raised"],
                       Call("get_relevant_documents", disambiguate(args.industry),
                            "pending", <<>>))
    /\ pc' = "fallback"
    /\ UNCHANGED <<args, ret>>

\* retriever.get_relevant_documents returns docs
FallbackReturns(docs) ==
    /\ pc = "fallback"
    /\ calls' = [calls EXCEPT ![2].outcome = "returned", ![2].docs = docs]
    /\ ret' = validate_docs(args, docs)
    /\ pc' = "return"
    /\ UNCHANGED args

\* retriever.get_relevant_documents raises: nothing catches the exception
FallbackRaises ==
    /\ pc = "fallback"
    /\ calls' = [calls EXCEPT ![2].outcome = "raised"]
    /\ pc' = "raise"
    /\ UNCHANGED <<args, ret>>

NextValidate ==
    \/ RejectEmptyInput
    \/ InvokePrimary
    \/ \E docs \in Retrievals : PrimaryReturns(docs)
    \/ PrimaryRaises
    \/ \E docs \in Retrievals : FallbackReturns(docs)
    \/ FallbackRaises

SpecValidate == InitValidate /\ [][NextValidate]_vars

-----------------------------------------------------------------------------
(* Properties of the validator                                             *)

Returned == pc = "return"

\* the documents the retriever returned to the call
Retrieved == calls[Len(calls)].docs

HasRetrieved == calls # <<>> /\ calls[Len(calls)].outcome = "returned"

UrlsOf(links) == {links[i][2] : i \in 1..Len(links)}

\* the distinct non-empty urls of a document sequence
DistinctUrls(docs) ==
    {u \in {IF docs[i].source # "" THEN docs[i].source ELSE docs[i].url :
               i \in 1..Len(docs)} : u # ""}

\* C1: every result of validate carries links with pairwise distinct urls and
\* at most 5 of them; an accepted result carries exactly 5.
C1_LinksDistinctAtMostFive ==
    Returned =>
        /\ Len(ret.links) <= 5
        /\ \A i, j \in 1..Len(ret.links) :
               i # j => ret.links[i][2] # ret.links[j][2]
        /\ ret.is_valid => Len(ret.links) = 5

\* an accepted result whose six chosen documents repeat a url
C1_Witness ==
    /\ Returned
    /\ ret.is_valid
    /\ Len(ret.docs) = 6
    /\ Cardinality(DistinctUrls(ret.docs)) = 5
    /\ \A i \in 1..Len(ret.docs) : ret.docs[i].source # "" \/ ret.docs[i].url # ""

\* C2 as stated: a result is accepted with exactly five links and exactly five
\* documents, or rejected with no documents and no links.
C2_AllOrNothing ==
    Returned =>
        \/ ret.is_valid /\ Len(ret.links) = 5 /\ Len(ret.docs) = 5
        \/ ~ret.is_valid /\ ret.docs = <<>> /\ ret.links = <<>>

\* C2 amended: an accepted result carries exactly five links and the whole
\* chosen document set, of at least five and at least min_results documents;
\* a rejection of class EmptyInput or NoResults carries no documents and no
\* links; a rejection of class InsufficientResults carries the retrieved
\* documents and no links; a rejection of class InsufficientLinks carries
\* fewer than five links and one of class NotIndustryLike exactly five, both
\* with the chosen document set.
C2_ResultShapes ==
    Returned =>
        /\ ret.is_valid <=> ret.message = "OK"
        /\ ret.message \in {"OK", "NotIndustryLike"} =>
               /\ Len(ret.links) = 5
               /\ Len(ret.docs) >= 5
               /\ Len(ret.docs) >= args.min_results
        /\ ret.message \in {"EmptyInput", "NoResults"} =>
               ret.docs = <<>> /\ ret.links = <<>>
        /\ ret.message = "InsufficientResults" =>
               /\ ret.links = <<>>
               /\ ret.docs = Retrieved
               /\ Len(ret.docs) < args.min_results
        /\ ret.message = "InsufficientLinks" =>
               /\ Len(ret.links) < 5
               /\ Len(ret.docs) >= args.min_results
        /\ ret.message \in {"OK", "NotIndustryLike", "InsufficientLinks"} =>
               /\ UrlsOf(ret.links) \subseteq DistinctUrls(ret.docs)
               /\ \A i \in 1..Len(ret.docs) : ret.docs[i] \in Range(Retrieved)

\* a rejected result that carries five links and more than five documents
C2_Witness ==
    /\ Returned
    /\ ~ret.is_valid
    /\ ret.message = "NotIndustryLike"
    /\ Len(ret.links) = 5
    /\ Len(ret.docs) > 5

\* C3: when the primary and the fallback retrieval call both raise, validate
\* returns a rejected result of class NoResults.
C3_BothRaiseRejectsNoResults ==
    (Len(calls) = 2 /\ calls[2].outcome = "raised") =>
        /\ Returned
        /\ ~ret.is_valid
        /\ ret.message = "NoResults"

\* the retrieved sequence has at least min_results documents and at least
\* five distinct non-empty urls
C6_Fed ==
    /\ Returned
    /\ HasRetrieved
    /\ Len(Retrieved) >= args.min_results
    /\ Cardinality(DistinctUrls(Retrieved)) >= 5

\* C6 as stated: such a retrieval is never rejected with InsufficientResults
\* or InsufficientLinks.
C6_FilterNeverStarves ==
    C6_Fed => ret.message \notin {"InsufficientResults", "InsufficientLinks"}

\* C6 amended: such a retrieval is never rejected with InsufficientResults,
\* and is rejected with InsufficientLinks only when the filtered set was
\* chosen (the chosen documents are not the retrieved ones).
C6_StarvedOnlyByFilteredSet ==
    C6_Fed =>
        /\ ret.message # "InsufficientResults"
        /\ ret.message = "InsufficientLinks" => ret.docs # Retrieved

\* such a retrieval rejected for its links, the filtered set chosen
C6_Witness ==
    /\ C6_Fed
    /\ ret.message = "InsufficientLinks"
    /\ ret.docs # Retrieved
    /\ Len(ret.docs) >= args.min_results

\* the original query contains no signal phrase
QueryHasNoSignal ==
    \A sig \in INDUSTRY_SIGNALS : ~Contains(normalize(args.industry), sig)

\* how many of the first min_results chosen documents reach the hit threshold
SignalDocsAmongFirst ==
    Cardinality({i \in 1..Len(ret.docs) :
                    /\ i <= args.min_results
                    /\ SnippetScores[ret.docs[i]] >= args.min_signal_hits_per_doc})

\* C7: a call that passes steps 1 to 6 is rejected as NotIndustryLike exactly
\* when the original query scores 0 and fewer than min_signal_docs of the
\* first min_results chosen documents reach the hit threshold; otherwise it
\* is accepted.
C7_IndustryGate ==
    (Returned /\ ret.message \notin {"EmptyInput", "NoResults", "InsufficientResults",
                                     "InsufficientLinks"}) =>
        /\ ret.message = "NotIndustryLike"
               <=> (QueryHasNoSignal /\ SignalDocsAmongFirst < args.min_signal_docs)
        /\ ret.is_valid <=> ret.message # "NotIndustryLike"

\* a query with a signal phrase accepted although no counted document scores
C7_Witness ==
    /\ Returned
    /\ ret.is_valid
    /\ ~QueryHasNoSignal
    /\ SignalDocsAmongFirst = 0

\* the query the protocol prescribes
ExpectedQuery ==
    IF \E k \in {"industry", "sector", "market"} : Contains(normalize(args.industry), k)
    THEN args.industry
    ELSE args.industry \o " industry"

NoAlnum ==
    \A i \in 1..Len(args.industry) :
        Char(args.industry, i) \notin LetterChars \cup DigitChars

\* C9: an input without alphanumeric character is rejected as EmptyInput and
\* no retrieval path is invoked; otherwise the primary path is invoked exactly
\* once, the fallback path at most once and only after the primary raised,
\* both with the input, " industry" appended exactly when none of "industry",
\* "sector", "market" occurs in the normalized input.
C9_RetrievalProtocol ==
    /\ NoAlnum => calls = <<>> /\ (pc # "start" => Returned /\ ret.message = "EmptyInput")
    /\ (~NoAlnum /\ pc # "start") =>
           /\ Len(calls) \in {1, 2}
           /\ calls[1].method = "invoke"
           /\ Len(calls) = 2 =>
                  /\ calls[2].method = "get_relevant_documents"
                  /\ calls[1].outcome = "raised"
           /\ \A i \in 1..Len(calls) : calls[i].query = ExpectedQuery
           /\ Returned => ret.message # "EmptyInput"

\* the fallback answered after the primary raised, the suffix appended
C9_Witness ==
    /\ Returned
    /\ Len(calls) = 2
    /\ calls[1].outcome = "raised"
    /\ calls[2].outcome = "returned"
    /\ calls[2].query = args.industry \o " industry"
    /\ ret.is_valid

-----------------------------------------------------------------------------
(* Inputs and properties of the URL selector                               *)

UrlNames == <<"u1", "u2", "u3", "u4", "u5", "u6", "u7", "u8">>

TitleNames == <<"t1", "t2", "t3", "t4", "t5", "t6", "t7", "t8">>

\* what the next document of a list can carry: no url, a url met before, or
\* the next unused name (urls are only compared with each other)
NextUrls(us) ==
    LET used == Range(us) \ {""}
    IN  {""} \cup used \cup {UrlNames[Cardinality(used) + 1]}

\* the url lists of up to n documents
RECURSIVE UrlLists(_)
UrlLists(n) ==
    IF n = 0 THEN {<<>>}
    ELSE LET shorter == UrlLists(n - 1)
         IN  shorter \cup
             UNION {{Append(us, u) : u \in NextUrls(us)} :
                        us \in {l \in shorter : Len(l) = n - 1}}

\* the i-th document of a list: the metadata keys it uses rotate with i + k
LinkDoc(i, u, k) ==
    CASE (i + k) % 3 = 0 -> Document(TitleNames[i], "", u, "", "", "")
      [] (i + k) % 3 = 1 -> Document("", TitleNames[i], "", u, "", "")
      [] (i + k) % 3 = 2 -> Document("", "", u, "", "", "")

LinkInputs ==
    {[i \in 1..Len(us) |-> LinkDoc(i, us[i], k)] : us \in UrlLists(MaxDocs), k \in 0..2}

InitLinks ==
    /\ pc = "call"
    /\ args \in [fn : {"extract_5_urls"}, docs : LinkInputs]
    /\ calls = <<>>
    /\ ret = <<>>

Extract5Urls ==
    /\ pc = "call"
    /\ args.fn = "extract_5_urls"
    /\ ret' = extract_5_urls(args.docs)
    /\ pc' = "return"
    /\ UNCHANGED <<args, calls>>

NextLinks == Extract5Urls

SpecLinks == InitLinks /\ [][NextLinks]_vars

\* the (title, url) pairs of the documents that carry a non-empty url no
\* earlier document carries, in input order
FirstOccurrences(docs) ==
    LET u(i) == IF docs[i].source # "" THEN docs[i].source ELSE docs[i].url
        t(i) == IF docs[i].title # "" THEN docs[i].title
                ELSE IF docs[i].page_title # "" THEN docs[i].page_title
                ELSE "Wikipedia page"
        first(i) == u(i) # "" /\ \A j \in 1..(i - 1) : u(j) # u(i)
    IN  Flatten([i \in 1..Len(docs) |-> IF first(i) THEN << <<t(i), u(i)>> >> ELSE <<>>],
                1, Len(docs))

\* C8: extract_5_urls returns the first min(5, k) first occurrences of
\* non-empty urls, in input order (k the number of distinct non-empty urls).
C8_FirstFiveFirstOccurrences ==
    (pc = "return" /\ args.fn = "extract_5_urls") =>
        LET all == FirstOccurrences(args.docs)
        IN  /\ Len(all) = Cardinality(DistinctUrls(args.docs))
            /\ Len(ret) = (IF Len(all) < 5 THEN Len(all) ELSE 5)
            /\ \A i \in 1..Len(ret) : ret[i] = all[i]

\* six documents, one repeating an earlier url, give five pairs
C8_Witness ==
    /\ pc = "return"
    /\ args.fn = "extract_5_urls"
    /\ Len(args.docs) = 6
    /\ \A i \in 1..6 : args.docs[i].source # "" \/ args.docs[i].url # ""
    /\ Cardinality(DistinctUrls(args.docs)) = 5
    /\ Len(ret) = 5

-----------------------------------------------------------------------------
(* Report synthesizer                                                      *)

split_sentences(text) ==
    LET t == collapse_whitespace(py_strip(text))
        n == Len(t)
        \* the whitespace matched by (?<=[.!?])\s+
        seps == Sorted({i \in 2..n : IsSpace(Char(t, i))
                                     /\ Char(t, i - 1) \in {".", "!", "?"}}, n)
    IN  IF t = "" THEN <<>>
        ELSE [k \in 1..(Len(seps) + 1) |->
                 SubSeq(t, IF k = 1 THEN 1 ELSE seps[k - 1] + 1,
                           IF k = Len(seps) + 1 THEN n ELSE seps[k] - 1)]

word_count(text) == Len(py_split(text))

\* if word_count(attempt) <= word_count(out) + remaining_words
fits_budget(attempt, out, remaining_words) ==
    word_count(attempt) <= word_count(out) + remaining_words

RECURSIVE add_sentences_loop(_, _, _, _)
add_sentences_loop(out, sentences, k, remaining_words) ==
    IF k > Len(sentences) THEN out
    ELSE LET s == py_strip(sentences[k])
             sep == IF out # "" /\ Char(out, Len(out)) # "\n" THEN "\n" ELSE ""
             attempt == out \o sep \o s
         IN  IF s = "" THEN add_sentences_loop(out, sentences, k + 1, remaining_words)
             ELSE IF fits_budget(attempt, out, remaining_words)
                  THEN add_sentences_loop(attempt, sentences, k + 1, remaining_words)
                  ELSE out

add_sentences_up_to_budget(existing, candidate, remaining_words) ==
    IF remaining_words <= 0 THEN existing
    ELSE add_sentences_loop(existing, split_sentences(candidate), 1, remaining_words)

RECURSIVE enforce_loop(_, _, _, _)
enforce_loop(report, report_sections, k, max_words) ==
    IF k > Len(report_sections) THEN report
    ELSE LET remaining == max_words - word_count(report)
             report2 == add_sentences_up_to_budget(report, report_sections[k], remaining)
         IN  IF word_count(report2) >= max_words THEN report2
             ELSE enforce_loop(report2, report_sections, k + 1, max_words)

enforce_lt_500_words_complete(report_sections, max_words) ==
    py_strip(enforce_loop("", report_sections, 1, max_words))

RECURSIVE take_bullets_loop(_, _, _, _, _)
take_bullets_loop(bullets, k, out_lines, current, max_words) ==
    IF k > Len(bullets) THEN out_lines
    ELSE LET b_words == Len(py_split(bullets[k]))
         IN  IF current + b_words <= max_words
             THEN take_bullets_loop(bullets, k + 1, Append(out_lines, bullets[k]),
                                    current + b_words, max_words)
             ELSE out_lines

take_bullets_up_to_words(bullets, max_words) ==
    py_join("\n", take_bullets_loop(bullets, 1, <<>>, 0, max_words))

doc_text(d) ==
    IF d.summary # "" THEN d.summary
    ELSE IF d.description # "" THEN d.description
    ELSE IF d.snippet # "" THEN d.snippet
    ELSE IF d.content # "" THEN d.content
    ELSE d.page_content

\* f"- {title}: {' '.join(words[:cap]).rstrip('.')}."
bullet(title, text, cap) ==
    "- " \o title \o ": " \o py_rstrip_dot(py_join(" ", Take(py_split(text), cap))) \o "."

\* the quick definition of a document with cleaned text content
quick_def(title, content) ==
    LET sentences == split_sentences(content)
    IN  IF sentences # <<>> THEN bullet(title, py_strip(sentences[1]), 28)
        ELSE bullet(title, content, 28)

\* the grounding extract of a document with cleaned text content
extract(title, content) ==
    LET sentences == split_sentences(content)
        extract_text == IF Len(sentences) >= 2
                        THEN py_strip(sentences[1]) \o " " \o py_strip(sentences[2])
                        ELSE IF sentences # <<>> THEN py_strip(sentences[1])
                        ELSE content
    IN  bullet(title, extract_text, 60)

\* n copies of the word w separated by one space
Words(w, n) == py_join(" ", [i \in 1..n |-> w])

ReportDocs ==
    { Document("Banking", "", "u1", "", "",
               "Banking is a  regulated business . It began in the U S A around 1 , 000 BC. Banks lend money."),
      Document("", "", "u2", "", Words("ab", 70), "ignored body"),
      Document(Words("Long", 60), "", "u3", "", "", "   ") }

\* One pass of the loop over docs[:5]: the title, and the quick definition
\* and grounding extract of a document whose cleaned text is not empty.
doc_parts(d) ==
    LET title == title_of(d, "Wikipedia page")
        content == clean_wiki_text(doc_text(d))
    IN  [title |-> title,
         quick_defs |-> IF content = "" THEN <<>> ELSE <<quick_def(title, content)>>,
         extracts |-> IF content = "" THEN <<>> ELSE <<extract(title, content)>>]

\* doc_parts of every document of ReportDocs, tabulated once
DocParts == [d \in ReportDocs |-> doc_parts(d)]

\* the report without the final safeguard
hard_truncate_off(final_report) == final_report

\* words = final_report.split(); if len(words) > 500: " ".join(words[:500])
hard_truncate(final_report) ==
    LET words == py_split(final_report)
    IN  IF Len(words) > 500 THEN py_join(" ", Take(words, 500)) ELSE final_report

build_report(industry, docs) ==
    LET top == Take(docs, 5)
        n == Len(top)
        titles == [i \in 1..n |-> DocParts[top[i]].title]
        quick_defs == Flatten([i \in 1..n |-> DocParts[top[i]].quick_defs], 1, n)
        extracts == Flatten([i \in 1..n |-> DocParts[top[i]].extracts], 1, n)
        defs_block == take_bullets_up_to_words(quick_defs, 130)
        extracts_block == take_bullets_up_to_words(extracts, 220)
        narrative ==
            "**Industry report:** " \o industry \o "\n\n"
            \o "**Overview**\n\n"
            \o "Grounded Wikipedia topics (top matches): " \o py_join(", ", titles) \o ".\n\n"
            \o "This report summarizes the industry's definition, typical structure, and recurring themes as described by those pages.\n\n"
            \o "**Notable subtopics (quick definitions)**\n\n"
            \o (IF defs_block # "" THEN defs_block ELSE "- (No extract text available.)")
            \o "\n\n"
            \o "**Key themes**\n\n"
            \o "- Scope & definition: What the industry includes, its core activities, and common boundaries.\n"
            \o "- Value chain: Typical upstream inputs, production/service delivery, and downstream customers/end users.\n"
            \o "- Enablers: Technologies, infrastructure, standards, and processes that commonly show up across the pages.\n"
            \o "- Ecosystem: Adjacent sectors, institutions, and public/private actors that influence outcomes.\n\n"
            \o "**Current dynamics**\n\n"
            \o "- Demand-side: The use-cases and adoption contexts implied by the descriptions (who uses the outputs and why).\n"
            \o "- Supply-side: Inputs, operational complexity, scaling constraints, and typical bottlenecks suggested by the coverage.\n"
            \o "- Differentiation: Where competition tends to focus (cost, performance, reliability, compliance, and distribution).\n\n"
            \o "**Grounding extracts**\n\n"
            \o (IF extracts_block # "" THEN extracts_block
                ELSE "- (No extract text available.)")
    IN  hard_truncate(py_strip(narrative))

-----------------------------------------------------------------------------
(* Inputs and properties of the report synthesizer                         *)

MaxReportDocs == 5

MaxSections == 2

ReportIndustries == {"", "fintech", Words("x", 400)}

RECURSIVE SeqsUpTo(_, _)
SeqsUpTo(S, n) ==
    IF n = 0 THEN {<<>>}
    ELSE LET shorter == SeqsUpTo(S, n - 1)
         IN  shorter \cup {Append(q, x) : q \in {l \in shorter : Len(l) = n - 1}, x \in S}

BuildReportArgs ==
    [fn : {"build_report"}, industry : ReportIndustries,
     docs : SeqsUpTo(ReportDocs, MaxReportDocs)]

ReportSections ==
    {"", "Alpha.", "One two. Three four.", "One. Two. Three.", "A b c d e f g.",
     Words("ab", 299) \o " end. " \o Words("ab", 299) \o " end."}

EnforceArgs ==
    [fn : {"enforce_lt_500_words_complete"},
     report_sections : SeqsUpTo(ReportSections, MaxSections),
     max_words : {0, 1, 2, 3, 5, 500}]

InitReport ==
    /\ pc = "call"
    /\ args \in BuildReportArgs \/ args \in EnforceArgs
    /\ calls = <<>>
    /\ ret = ""

BuildReport ==
    /\ pc = "call"
    /\ args.fn = "build_report"
    /\ ret' = build_report(args.industry, args.docs)
    /\ pc' = "return"
    /\ UNCHANGED <<args, calls>>

EnforceBudget ==
    /\ pc = "call"
    /\ args.fn = "enforce_lt_500_words_complete"
    /\ ret' = enforce_lt_500_words_complete(args.report_sections, args.max_words)
    /\ pc' = "return"
    /\ UNCHANGED <<args, calls>>

NextReport == BuildReport \/ EnforceBudget

SpecReport == InitReport /\ [][NextReport]_vars

\* the number of maximal runs of non-whitespace characters of s
CountWords(s) ==
    Cardinality({i \in 1..Len(s) : /\ Char(s, i) \notin WhitespaceChars
                                   /\ i = 1 \/ Char(s, i - 1) \in WhitespaceChars})

\* C4: the report of build_report has at most 500 whitespace-separated words.
C4_ReportAtMost500Words ==
    (pc = "return" /\ args.fn = "build_report") => CountWords(ret) <= 500

\* five documents and a report cut to exactly 500 words
C4_Witness ==
    /\ pc = "return"
    /\ args.fn = "build_report"
    /\ Len(args.docs) = 5
    /\ CountWords(ret) = 500

\* C5: the report of enforce_lt_500_words_complete has at most max_words
\* words.
C5_EnforceWithinBudget ==
    (pc = "return" /\ args.fn = "enforce_lt_500_words_complete") =>
        CountWords(ret) <= args.max_words

-----------------------------------------------------------------------------
(* Inputs of the text cleaner                                              *)

MaxCleanLen == 5

CleanAlphabet == {"U", "s", " ", "1", ","}

RECURSIVE StringsUpTo(_, _)
StringsUpTo(alphabet, n) ==
    IF n = 0 THEN {""}
    ELSE LET shorter == StringsUpTo(alphabet, n - 1)
         IN  shorter \cup {s \o c : s \in shorter, c \in alphabet}

CleanInputs == StringsUpTo(CleanAlphabet, MaxCleanLen)

InitClean ==
    /\ pc = "call"
    /\ args \in [fn : {"clean_wiki_text"}, text : CleanInputs]
    /\ calls = <<>>
    /\ ret = ""

CleanWikiText ==
    /\ pc = "call"
    /\ args.fn = "clean_wiki_text"
    /\ ret' = clean_wiki_text(args.text)
    /\ pc' = "return"
    /\ UNCHANGED <<args, calls>>

NextClean == CleanWikiText

SpecClean == InitClean /\ [][NextClean]_vars

\* C10: wherever two single-letter tokens of the input stand next to each
\* other separated by one space (alone or inside a longer run), the output of
\* clean_wiki_text contains the two letters joined.
C10_JoinsRunsOfTwoOrMore ==
    (pc = "return" /\ args.fn = "clean_wiki_text") =>
        \A p \in 1..(Len(args.text) - 2) :
            (/\ IsSingleLetter(args.text, p)
             /\ Char(args.text, p + 1) = " "
             /\ IsSingleLetter(args.text, p + 2))
                => Contains(ret, Char(args.text, p) \o Char(args.text, p + 2))

====
